---- MODULE Spec2Model ----
(***************************************************************************)
(* FPIDController (src/PIDController.h, src/PIDController.cpp) as a state  *)
(* machine.  Every float of the program is modelled as an exact rational   *)
(* <<numerator, denominator>> in lowest terms with a positive denominator, *)
(* so that the "nearly zero" radius 0.00001 keeps its real value and the   *)
(* products and quotients of the calculation are computed, not rounded.    *)
(***************************************************************************)
EXTENDS Integers, Sequences, FiniteSets, TLC

VARIABLES
    P_Gain,                       \* proportional gain
    I_Gain,                       \* integral gain
    D_Gain,                       \* differential gain
    ControlledValue_Max,          \* output maximum
    ControlledValue_Min,          \* output minimum
    PeriodicDuration,             \* periodic duration (seconds)
    _bIsEnabled,                  \* enabled flag
    _TickBuffer,                  \* accumulated tick time
    _IntegralAccumulation,        \* integral accumulator
    _PreviousCalculation,         \* last clamped output
    _PreviousInput,               \* previous measured input
    _PreviousError,               \* previous error
    _CalculationAveragingBuffer,  \* averaging window (sequence)
    _CalculationAverageBufferSize,\* averaging window size
    call,                         \* the last operation: its arguments and what it returned
    run,                          \* history of the ticks since the tick accumulator was last cleared
    outputs                       \* the latest outputs given to an averaging window since it was last cleared

vars == <<P_Gain, I_Gain, D_Gain, ControlledValue_Max, ControlledValue_Min,
          PeriodicDuration, _bIsEnabled, _TickBuffer, _IntegralAccumulation,
          _PreviousCalculation, _PreviousInput, _PreviousError,
          _CalculationAveragingBuffer, _CalculationAverageBufferSize, call, run,
          outputs>>

(***************************************************************************)
(* Exact arithmetic on floats-as-rationals.                                *)
(***************************************************************************)
Abs(n) == IF n < 0 THEN -n ELSE n

RECURSIVE GCD(_, _)
GCD(a, b) == IF b = 0 THEN a ELSE GCD(b, a % b)

Norm(n, d) ==
    LET s == IF d < 0 THEN -1 ELSE 1
        g == GCD(Abs(n), Abs(d))
    IN  <<(s * n) \div g, (s * d) \div g>>

R(n, d) == Norm(n, d)

Zero == <<0, 1>>

One == <<1, 1>>

Neg(x) == <<-x[1], x[2]>>

Add(x, y) ==
    LET g == GCD(x[2], y[2])
    IN  Norm(x[1] * (y[2] \div g) + y[1] * (x[2] \div g), (x[2] \div g) * y[2])

Sub(x, y) == Add(x, Neg(y))

Mul(x, y) ==
    LET g1 == GCD(Abs(x[1]), y[2])
        g2 == GCD(Abs(y[1]), x[2])
    IN  IF x[1] = 0 \/ y[1] = 0 THEN Zero
        ELSE Norm((x[1] \div g1) * (y[1] \div g2), (x[2] \div g2) * (y[2] \div g1))

\* y is never zero where the program divides (see the guards of the callers)
Div(x, y) == Mul(x, Norm(y[2], y[1]))

Floor(x) == x[1] \div x[2]

\* x < y, comparing the integer parts first so that no product overflows
Lt(x, y) ==
    LET fx == Floor(x)
        fy == Floor(y)
        g  == GCD(x[2], y[2])
    IN  IF fx # fy THEN fx < fy
        ELSE (x[1] - fx * x[2]) * (y[2] \div g) < (y[1] - fy * y[2]) * (x[2] \div g)

Gt(x, y) == Lt(y, x)

Le(x, y) == ~Lt(y, x)

Ge(x, y) == ~Lt(x, y)

(***************************************************************************)
(* Stateless helpers of the controller.                                    *)
(***************************************************************************)
ZeroThresholdRadius == R(1, 100000)

\* A faulty variant: only an exact zero counts as nearly zero.
IsNearlyZero_ExactOnly(value) == value = Zero

IsNearlyZero(value) ==
    \/ value = Zero
    \/ (Gt(value, Neg(ZeroThresholdRadius)) /\ Lt(value, ZeroThresholdRadius))

\* A faulty variant: an overflow empties the buffer, and the remainder is lost.
AccumulateBuffer_DropRemainder(Buffer, DeltaTime, BufferSize) ==
    LET b == Add(Buffer, DeltaTime)
    IN  IF Ge(b, BufferSize)
        THEN [Buffer |-> Zero, overflow |-> TRUE]
        ELSE [Buffer |-> b, overflow |-> FALSE]

\* Buffer += DeltaTime; if (Buffer >= BufferSize) { Buffer -= BufferSize; return true; }
AccumulateBuffer(Buffer, DeltaTime, BufferSize) ==
    LET b == Add(Buffer, DeltaTime)
    IN  IF Ge(b, BufferSize)
        THEN [Buffer |-> Sub(b, BufferSize), overflow |-> TRUE]
        ELSE [Buffer |-> b, overflow |-> FALSE]

(***************************************************************************)
(* The three terms.  Each reads the controller's current state.            *)
(***************************************************************************)
ProportionalError(Error) ==
    IF IsNearlyZero(P_Gain) THEN Zero ELSE Mul(P_Gain, Error)

\* A faulty variant: a nearly zero gain erases the accumulator instead of freezing it.
IntegralError_Erase(Error, DeltaTime) ==
    IF IsNearlyZero(I_Gain) THEN Zero
    ELSE LET a == Add(_IntegralAccumulation, Mul(Mul(I_Gain, Error), DeltaTime))
         IN  IF Gt(a, ControlledValue_Max) THEN ControlledValue_Max
             ELSE IF Lt(a, ControlledValue_Min) THEN ControlledValue_Min
             ELSE a

\* A faulty variant: the accumulator is not clamped.
IntegralError_NoClamp(Error, DeltaTime) ==
    IF IsNearlyZero(I_Gain) THEN _IntegralAccumulation
    ELSE Add(_IntegralAccumulation, Mul(Mul(I_Gain, Error), DeltaTime))

\* The value IntegralError leaves in _IntegralAccumulation, which it also returns.
IntegralError(Error, DeltaTime) ==
    IF IsNearlyZero(I_Gain) THEN _IntegralAccumulation
    ELSE LET a == Add(_IntegralAccumulation, Mul(Mul(I_Gain, Error), DeltaTime))
         IN  IF Gt(a, ControlledValue_Max) THEN ControlledValue_Max
             ELSE IF Lt(a, ControlledValue_Min) THEN ControlledValue_Min
             ELSE a

DifferentialError(Error, DeltaTime) ==
    IF Lt(DeltaTime, Zero) \/ IsNearlyZero(DeltaTime) \/ IsNearlyZero(D_Gain)
    THEN Zero
    ELSE Mul(D_Gain, Div(Sub(Error, _PreviousError), DeltaTime))

\* A faulty variant: the previous input is not subtracted.
DifferentialError_PreventDerivativeKick_NoPrevious(CurrentInput, DeltaTime) ==
    IF Lt(DeltaTime, Zero) \/ IsNearlyZero(DeltaTime) \/ IsNearlyZero(D_Gain)
    THEN Zero
    ELSE Mul(Mul(R(-1, 1), D_Gain), Div(CurrentInput, DeltaTime))

DifferentialError_PreventDerivativeKick(CurrentInput, DeltaTime) ==
    IF Lt(DeltaTime, Zero) \/ IsNearlyZero(DeltaTime) \/ IsNearlyZero(D_Gain)
    THEN Zero
    ELSE Mul(Mul(R(-1, 1), D_Gain), Div(Sub(CurrentInput, _PreviousInput), DeltaTime))

\* A faulty variant: the output is returned as computed.
ClampOutput_None(OutputValue) == OutputValue

\* The clamp of ClampAndCacheOutput.
ClampOutput(OutputValue) ==
    IF Gt(OutputValue, ControlledValue_Max) THEN ControlledValue_Max
    ELSE IF Lt(OutputValue, ControlledValue_Min) THEN ControlledValue_Min
    ELSE OutputValue

\* A faulty variant: the new output is appended and the oldest entry is not erased.
CachePreviousCalculation_NoErase(CalculatedValue) ==
    IF _CalculationAverageBufferSize > 1
    THEN Append(_CalculationAveragingBuffer, CalculatedValue)
    ELSE _CalculationAveragingBuffer

\* The averaging window CachePreviousCalculation leaves.
CachePreviousCalculation(CalculatedValue) ==
    IF _CalculationAverageBufferSize > 1
    THEN Tail(Append(_CalculationAveragingBuffer, CalculatedValue))
    ELSE _CalculationAveragingBuffer

\* The averaging window ClearAveragingBuffer leaves for a window of the given size.
ClearAveragingBuffer(size) ==
    IF size > 0 THEN [i \in 1..size |-> Zero] ELSE <<>>

(***************************************************************************)
(* CalculateNewValue, both variants: what the call returns and the state   *)
(* it leaves.  computed is whether the call passed its deltaTime guard.    *)
(***************************************************************************)
\* A faulty variant: a call that calculates nothing stores the 0 it returns as the last
\* output.
Rejected_ZeroOutput ==
    [ret      |-> Zero,
     computed |-> FALSE,
     acc      |-> _IntegralAccumulation,
     perr     |-> _PreviousError,
     pin      |-> _PreviousInput,
     pcalc    |-> Zero,
     buf      |-> _CalculationAveragingBuffer]

Rejected ==
    [ret      |-> Zero,
     computed |-> FALSE,
     acc      |-> _IntegralAccumulation,
     perr     |-> _PreviousError,
     pin      |-> _PreviousInput,
     pcalc    |-> _PreviousCalculation,
     buf      |-> _CalculationAveragingBuffer]

\* A faulty variant: the measured value is stored as the previous input before the
\* derivative term is computed, so that the term sees no change of the input.
CalculateNewValue_TM_StoreFirst(TargetSetpoint, CurrentValue, DeltaTime) ==
    IF IsNearlyZero(DeltaTime) THEN Rejected
    ELSE LET Error  == Sub(TargetSetpoint, CurrentValue)
             p      == ProportionalError(Error)
             i      == IntegralError(Error, DeltaTime)
             d      == IF Lt(DeltaTime, Zero) \/ IsNearlyZero(D_Gain) THEN Zero
                       ELSE Mul(Mul(R(-1, 1), D_Gain),
                                Div(Sub(CurrentValue, CurrentValue), DeltaTime))
             Output == ClampOutput(Add(Add(p, i), d))
         IN  [ret      |-> Output,
              computed |-> TRUE,
              acc      |-> i,
              perr     |-> Error,
              pin      |-> CurrentValue,
              pcalc    |-> Output,
              buf      |-> CachePreviousCalculation(Output)]

CalculateNewValue_TM(TargetSetpoint, CurrentValue, DeltaTime) ==
    IF IsNearlyZero(DeltaTime) THEN Rejected
    ELSE LET Error  == Sub(TargetSetpoint, CurrentValue)
             p      == ProportionalError(Error)
             i      == IntegralError(Error, DeltaTime)
             d      == DifferentialError_PreventDerivativeKick(CurrentValue, DeltaTime)
             Output == ClampOutput(Add(Add(p, i), d))
         IN  [ret      |-> Output,
              computed |-> TRUE,
              acc      |-> i,
              perr     |-> Error,
              pin      |-> CurrentValue,
              pcalc    |-> Output,
              buf      |-> CachePreviousCalculation(Output)]

\* A faulty variant: a nearly zero deltaTime is not rejected.
CalculateNewValue_E_NoGuard(Error, DeltaTime) ==
    LET p      == ProportionalError(Error)
        i      == IntegralError(Error, DeltaTime)
        d      == DifferentialError(Error, DeltaTime)
        Output == ClampOutput(Add(Add(p, i), d))
    IN  [ret      |-> Output,
         computed |-> TRUE,
         acc      |-> i,
         perr     |-> Error,
         pin      |-> _PreviousInput,
         pcalc    |-> Output,
         buf      |-> CachePreviousCalculation(Output)]

CalculateNewValue_E(Error, DeltaTime) ==
    IF IsNearlyZero(DeltaTime) THEN Rejected
    ELSE LET p      == ProportionalError(Error)
             i      == IntegralError(Error, DeltaTime)
             d      == DifferentialError(Error, DeltaTime)
             Output == ClampOutput(Add(Add(p, i), d))
         IN  [ret      |-> Output,
              computed |-> TRUE,
              acc      |-> i,
              perr     |-> Error,
              pin      |-> _PreviousInput,
              pcalc    |-> Output,
              buf      |-> CachePreviousCalculation(Output)]

\* float GetAverageCalculatedValue() const: the loop stops at the entries there are.
RECURSIVE SumOfFirst(_, _)
SumOfFirst(buffer, count) ==
    IF count = 0 THEN Zero
    ELSE Add(SumOfFirst(buffer, count - 1), buffer[count])

\* What GetAverageCalculatedValue returns for a window, a window size and a last output.
AverageOf(buffer, size, last) ==
    IF size <= 1
    THEN last
    ELSE LET count == IF Len(buffer) < size THEN Len(buffer) ELSE size
         IN  Div(SumOfFirst(buffer, count), R(size, 1))

GetAverageCalculatedValue ==
    AverageOf(_CalculationAveragingBuffer, _CalculationAverageBufferSize,
              _PreviousCalculation)

\* The largest averaging window, and the number of latest outputs remembered.
MaxWindow == 3

\* The outputs remembered after a CalculateNewValue call: a performed calculation adds
\* its output while the window averages (size > 1).
OutputsAfter(r) ==
    IF r.computed /\ _CalculationAverageBufferSize > 1
    THEN LET s == Append(outputs, r.ret)
         IN  IF Len(s) > MaxWindow THEN Tail(s) ELSE s
    ELSE outputs

\* The run-time state a CalculateNewValue call leaves.
Store(r) ==
    /\ _IntegralAccumulation' = r.acc
    /\ _PreviousError' = r.perr
    /\ _PreviousInput' = r.pin
    /\ _PreviousCalculation' = r.pcalc
    /\ _CalculationAveragingBuffer' = r.buf
    /\ outputs' = OutputsAfter(r)

(***************************************************************************)
(* Tick, both variants: the return value, the tick accumulator it leaves,  *)
(* whether it invoked CalculateNewValue, with which deltaTime, and what    *)
(* that call did.                                                          *)
(***************************************************************************)
\* A faulty variant: a tick whose deltaTime exceeds the period empties the accumulator.
Tick_TM_ZeroCarry(TargetSetpoint, CurrentValue, DeltaTime) ==
    IF Gt(PeriodicDuration, Zero)
    THEN IF Gt(DeltaTime, PeriodicDuration)
         THEN [fired |-> TRUE, calcDt |-> DeltaTime,
               buffer |-> Zero,
               r |-> CalculateNewValue_TM(TargetSetpoint, CurrentValue, DeltaTime)]
         ELSE LET ab == AccumulateBuffer(_TickBuffer, DeltaTime, PeriodicDuration)
              IN  IF ab.overflow
                  THEN [fired |-> TRUE, calcDt |-> PeriodicDuration,
                        buffer |-> ab.Buffer,
                        r |-> CalculateNewValue_TM(TargetSetpoint, CurrentValue, PeriodicDuration)]
                  ELSE [fired |-> FALSE, calcDt |-> Zero,
                        buffer |-> ab.Buffer, r |-> Rejected]
    ELSE [fired |-> TRUE, calcDt |-> DeltaTime,
          buffer |-> _TickBuffer,
          r |-> CalculateNewValue_TM(TargetSetpoint, CurrentValue, DeltaTime)]

Tick_TM(TargetSetpoint, CurrentValue, DeltaTime) ==
    IF Gt(PeriodicDuration, Zero)
    THEN IF Gt(DeltaTime, PeriodicDuration)
         THEN [fired |-> TRUE, calcDt |-> DeltaTime,
               buffer |-> AccumulateBuffer(_TickBuffer, DeltaTime, DeltaTime).Buffer,
               r |-> CalculateNewValue_TM(TargetSetpoint, CurrentValue, DeltaTime)]
         ELSE LET ab == AccumulateBuffer(_TickBuffer, DeltaTime, PeriodicDuration)
              IN  IF ab.overflow
                  THEN [fired |-> TRUE, calcDt |-> PeriodicDuration,
                        buffer |-> ab.Buffer,
                        r |-> CalculateNewValue_TM(TargetSetpoint, CurrentValue, PeriodicDuration)]
                  ELSE [fired |-> FALSE, calcDt |-> Zero,
                        buffer |-> ab.Buffer, r |-> Rejected]
    ELSE [fired |-> TRUE, calcDt |-> DeltaTime,
          buffer |-> _TickBuffer,
          r |-> CalculateNewValue_TM(TargetSetpoint, CurrentValue, DeltaTime)]

Tick_E(Error, DeltaTime) ==
    IF Gt(PeriodicDuration, Zero)
    THEN IF Gt(DeltaTime, PeriodicDuration)
         THEN [fired |-> TRUE, calcDt |-> DeltaTime,
               buffer |-> AccumulateBuffer(_TickBuffer, DeltaTime, DeltaTime).Buffer,
               r |-> CalculateNewValue_E(Error, DeltaTime)]
         ELSE LET ab == AccumulateBuffer(_TickBuffer, DeltaTime, PeriodicDuration)
              IN  IF ab.overflow
                  THEN [fired |-> TRUE, calcDt |-> PeriodicDuration,
                        buffer |-> ab.Buffer,
                        r |-> CalculateNewValue_E(Error, PeriodicDuration)]
                  ELSE [fired |-> FALSE, calcDt |-> Zero,
                        buffer |-> ab.Buffer, r |-> Rejected]
    ELSE [fired |-> TRUE, calcDt |-> DeltaTime,
          buffer |-> _TickBuffer,
          r |-> CalculateNewValue_E(Error, DeltaTime)]

(***************************************************************************)
(* Observation of the last operation and of the current run of ticks.      *)
(***************************************************************************)
\* Ticks counted in one run before the history is given up.
MaxRunTicks == 4

NoCall ==
    [op |-> "Construct", x |-> Zero, y |-> Zero, dt |-> Zero, clear |-> FALSE,
     ret |-> Zero, fired |-> FALSE, computed |-> FALSE, calcDt |-> Zero,
     wasEnabled |-> TRUE]

\* The tick accumulator was just cleared and no tick has been made since.
RunFresh == [valid |-> TRUE, cum |-> Zero, ticks |-> 0, calcs |-> 0]

\* Something other than ticks with 0 < deltaTime < period at a constant period > 0 has
\* touched the tick accumulator or the period since the accumulator was cleared.
RunBroken == [valid |-> FALSE, cum |-> Zero, ticks |-> 0, calcs |-> 0]

RunAfterTick(DeltaTime, t) ==
    IF /\ run.valid
       /\ run.ticks < MaxRunTicks
       /\ Gt(PeriodicDuration, Zero)
       /\ Gt(DeltaTime, Zero)
       /\ Lt(DeltaTime, PeriodicDuration)
    THEN [valid |-> TRUE,
          cum   |-> Add(run.cum, DeltaTime),
          ticks |-> run.ticks + 1,
          calcs |-> run.calcs + (IF t.r.computed THEN 1 ELSE 0)]
    ELSE RunBroken

Tunables == <<P_Gain, I_Gain, D_Gain, ControlledValue_Max, ControlledValue_Min,
              PeriodicDuration>>

RunTime == <<_bIsEnabled, _TickBuffer, _IntegralAccumulation, _PreviousCalculation,
             _PreviousInput, _PreviousError, _CalculationAveragingBuffer>>

(***************************************************************************)
(* The operations.                                                         *)
(***************************************************************************)
\* FPIDController(InP_Gain, InI_Gain, InD_Gain, MaxValue, MinValue, InPeriodicDuration):
\* the default constructor (window size 1, ClearState), then the parameters.
Construct(InP_Gain, InI_Gain, InD_Gain, MaxValue, MinValue, InPeriodicDuration) ==
    /\ _CalculationAverageBufferSize = 1
    /\ _bIsEnabled = TRUE
    /\ _TickBuffer = Zero
    /\ _IntegralAccumulation = Zero
    /\ _PreviousCalculation = Zero
    /\ _PreviousInput = Zero
    /\ _PreviousError = Zero
    /\ _CalculationAveragingBuffer = ClearAveragingBuffer(1)
    /\ P_Gain = InP_Gain
    /\ I_Gain = InI_Gain
    /\ D_Gain = InD_Gain
    /\ ControlledValue_Max = MaxValue
    /\ ControlledValue_Min = MinValue
    /\ PeriodicDuration = InPeriodicDuration
    /\ call = NoCall
    /\ run = RunFresh
    /\ outputs = <<>>

\* float CalculateNewValue(TargetSetpoint, CurrentValue, DeltaTime), called directly
CalculateTM(TargetSetpoint, CurrentValue, DeltaTime) ==
    LET r == CalculateNewValue_TM(TargetSetpoint, CurrentValue, DeltaTime)
    IN  /\ Store(r)
        /\ call' = [NoCall EXCEPT !.op = "CalculateTM", !.x = TargetSetpoint,
                                  !.y = CurrentValue, !.dt = DeltaTime, !.ret = r.ret,
                                  !.computed = r.computed, !.calcDt = DeltaTime]
        /\ UNCHANGED <<Tunables, _bIsEnabled, _TickBuffer,
                       _CalculationAverageBufferSize, run>>

\* float CalculateNewValue(Error, DeltaTime), called directly
CalculateE(Error, DeltaTime) ==
    LET r == CalculateNewValue_E(Error, DeltaTime)
    IN  /\ Store(r)
        /\ call' = [NoCall EXCEPT !.op = "CalculateE", !.x = Error, !.dt = DeltaTime,
                                  !.ret = r.ret, !.computed = r.computed,
                                  !.calcDt = DeltaTime]
        /\ UNCHANGED <<Tunables, _bIsEnabled, _TickBuffer,
                       _CalculationAverageBufferSize, run>>

\* The state a Tick leaves, and the record of the call.
Ticked(op, DeltaTime, t) ==
    /\ _TickBuffer' = t.buffer
    /\ Store(t.r)
    /\ call' = [NoCall EXCEPT !.op = op, !.dt = DeltaTime, !.fired = t.fired,
                              !.computed = t.r.computed, !.calcDt = t.calcDt,
                              !.ret = t.r.ret]
    /\ run' = RunAfterTick(DeltaTime, t)
    /\ UNCHANGED <<Tunables, _bIsEnabled, _CalculationAverageBufferSize>>

\* bool Tick(TargetSetpoint, CurrentValue, DeltaTime)
TickTM(TargetSetpoint, CurrentValue, DeltaTime) ==
    Ticked("TickTM", DeltaTime, Tick_TM(TargetSetpoint, CurrentValue, DeltaTime))

\* bool Tick(Error, DeltaTime)
TickE(Error, DeltaTime) ==
    Ticked("TickE", DeltaTime, Tick_E(Error, DeltaTime))

\* A faulty variant: a gated tick of a disabled controller still accumulates its time.
NotTicked_Accumulate(op, DeltaTime) ==
    /\ _TickBuffer' = Add(_TickBuffer, DeltaTime)
    /\ call' = [NoCall EXCEPT !.op = op, !.dt = DeltaTime]
    /\ UNCHANGED <<Tunables, _bIsEnabled, _IntegralAccumulation, _PreviousCalculation,
                   _PreviousInput, _PreviousError, _CalculationAveragingBuffer,
                   _CalculationAverageBufferSize, run, outputs>>

\* A gated tick of a disabled controller: return false.
NotTicked(op, DeltaTime) ==
    /\ call' = [NoCall EXCEPT !.op = op, !.dt = DeltaTime]
    /\ UNCHANGED <<Tunables, RunTime, _CalculationAverageBufferSize, run, outputs>>

\* bool TickIfEnabled(TargetSetpoint, CurrentValue, DeltaTime)
TickIfEnabledTM(TargetSetpoint, CurrentValue, DeltaTime) ==
    IF _bIsEnabled
    THEN Ticked("TickIfEnabledTM", DeltaTime,
                Tick_TM(TargetSetpoint, CurrentValue, DeltaTime))
    ELSE NotTicked("TickIfEnabledTM", DeltaTime)

\* bool TickIfEnabled(Error, DeltaTime)
TickIfEnabledE(Error, DeltaTime) ==
    IF _bIsEnabled
    THEN Ticked("TickIfEnabledE", DeltaTime, Tick_E(Error, DeltaTime))
    ELSE NotTicked("TickIfEnabledE", DeltaTime)

\* A faulty variant: the integral gain is divided by the ratio and the derivative gain
\* multiplied by it.
RescaledGains_Swapped(NewPeriodicDuration) ==
    IF /\ Gt(NewPeriodicDuration, Zero)
       /\ ~IsNearlyZero(NewPeriodicDuration)
       /\ Gt(PeriodicDuration, Zero)
       /\ ~IsNearlyZero(PeriodicDuration)
    THEN LET GainChangeRatio == Div(NewPeriodicDuration, PeriodicDuration)
         IN  <<Div(I_Gain, GainChangeRatio), Mul(D_Gain, GainChangeRatio)>>
    ELSE <<I_Gain, D_Gain>>

\* The gains SetPeriodicDuration leaves: <<I_Gain, D_Gain>>.
RescaledGains(NewPeriodicDuration) ==
    IF /\ Gt(NewPeriodicDuration, Zero)
       /\ ~IsNearlyZero(NewPeriodicDuration)
       /\ Gt(PeriodicDuration, Zero)
       /\ ~IsNearlyZero(PeriodicDuration)
    THEN LET GainChangeRatio == Div(NewPeriodicDuration, PeriodicDuration)
         IN  <<Mul(I_Gain, GainChangeRatio), Div(D_Gain, GainChangeRatio)>>
    ELSE <<I_Gain, D_Gain>>

\* void SetPeriodicDuration(NewPeriodicDuration)
SetPeriodicDuration(NewPeriodicDuration) ==
    /\ I_Gain' = RescaledGains(NewPeriodicDuration)[1]
    /\ D_Gain' = RescaledGains(NewPeriodicDuration)[2]
    /\ PeriodicDuration' = NewPeriodicDuration
    /\ call' = [NoCall EXCEPT !.op = "SetPeriodicDuration", !.x = NewPeriodicDuration]
    /\ run' = IF run.valid /\ run.ticks = 0 THEN run ELSE RunBroken
    /\ UNCHANGED <<P_Gain, ControlledValue_Max, ControlledValue_Min, RunTime,
                   _CalculationAverageBufferSize, outputs>>

\* void ClearState(): everything it assigns, ClearAveragingBuffer included.
Cleared ==
    /\ _TickBuffer' = Zero
    /\ _IntegralAccumulation' = Zero
    /\ _PreviousCalculation' = Zero
    /\ _PreviousInput' = Zero
    /\ _PreviousError' = Zero
    /\ _CalculationAveragingBuffer' = ClearAveragingBuffer(_CalculationAverageBufferSize)
    /\ run' = RunFresh
    /\ outputs' = <<>>

\* A faulty variant: ClearState leaves the enabled flag as it is.
ClearState_KeepFlag ==
    /\ Cleared
    /\ call' = [NoCall EXCEPT !.op = "ClearState", !.wasEnabled = _bIsEnabled]
    /\ UNCHANGED <<Tunables, _bIsEnabled, _CalculationAverageBufferSize>>

\* void ClearState(), called directly
ClearState ==
    /\ _bIsEnabled' = TRUE
    /\ Cleared
    /\ call' = [NoCall EXCEPT !.op = "ClearState", !.wasEnabled = _bIsEnabled]
    /\ UNCHANGED <<Tunables, _CalculationAverageBufferSize>>

\* The value Initialize gives _IntegralAccumulation before it calls ClearState.
InitializeSeed(bClearIntegralAccumulation) ==
    LET a == IF bClearIntegralAccumulation THEN Zero ELSE _PreviousCalculation
    IN  IF Gt(a, ControlledValue_Max) THEN ControlledValue_Max
        ELSE IF Lt(a, ControlledValue_Min) THEN ControlledValue_Min
        ELSE a

\* void Initialize(bClearIntegralAccumulation): the seed is assigned and clamped, and
\* then ClearState() assigns _IntegralAccumulation once more.
Initialize(bClearIntegralAccumulation) ==
    LET seeded == InitializeSeed(bClearIntegralAccumulation)
    IN  Cleared

\* A faulty variant: the accumulator is cleared on request whatever the transition.
SetEnabled_ClearOnRequest(bIsEnabled, bClearIntegralAccumulation) ==
    /\ IF ~_bIsEnabled /\ bIsEnabled
       THEN Initialize(bClearIntegralAccumulation)
       ELSE /\ _IntegralAccumulation' =
                  (IF bClearIntegralAccumulation THEN Zero ELSE _IntegralAccumulation)
            /\ UNCHANGED <<_TickBuffer, _PreviousCalculation, _PreviousInput,
                           _PreviousError, _CalculationAveragingBuffer, run, outputs>>
    /\ _bIsEnabled' = bIsEnabled
    /\ call' = [NoCall EXCEPT !.op = "SetEnabled", !.clear = bClearIntegralAccumulation,
                              !.wasEnabled = _bIsEnabled]
    /\ UNCHANGED <<Tunables, _CalculationAverageBufferSize>>

\* void SetEnabled(bIsEnabled, bClearIntegralAccumulation)
SetEnabled(bIsEnabled, bClearIntegralAccumulation) ==
    /\ IF ~_bIsEnabled /\ bIsEnabled
       THEN Initialize(bClearIntegralAccumulation)
       ELSE UNCHANGED <<_TickBuffer, _IntegralAccumulation, _PreviousCalculation,
                        _PreviousInput, _PreviousError, _CalculationAveragingBuffer, run,
                        outputs>>
    /\ _bIsEnabled' = bIsEnabled
    /\ call' = [NoCall EXCEPT !.op = "SetEnabled", !.clear = bClearIntegralAccumulation,
                              !.wasEnabled = _bIsEnabled]
    /\ UNCHANGED <<Tunables, _CalculationAverageBufferSize>>

\* Assignment to the public fields P_Gain, I_Gain and D_Gain.
SetGains(p, i, d) ==
    /\ P_Gain' = p
    /\ I_Gain' = i
    /\ D_Gain' = d
    /\ call' = [NoCall EXCEPT !.op = "SetGains"]
    /\ UNCHANGED <<ControlledValue_Max, ControlledValue_Min, PeriodicDuration, RunTime,
                   _CalculationAverageBufferSize, run, outputs>>

\* A faulty variant: the resize clears the whole run-time state, as ClearState does.
SetAveragingBufferSize_ClearState(AveragingBufferSize) ==
    /\ _CalculationAverageBufferSize' = AveragingBufferSize
    /\ _CalculationAveragingBuffer' = ClearAveragingBuffer(AveragingBufferSize)
    /\ _bIsEnabled' = TRUE
    /\ _TickBuffer' = Zero
    /\ _IntegralAccumulation' = Zero
    /\ _PreviousCalculation' = Zero
    /\ _PreviousInput' = Zero
    /\ _PreviousError' = Zero
    /\ run' = RunFresh
    /\ outputs' = <<>>
    /\ call' = [NoCall EXCEPT !.op = "SetAveragingBufferSize"]
    /\ UNCHANGED Tunables

\* void SetAveragingBufferSize(AveragingBufferSize): the size is stored and the window
\* cleared and refilled.  For a negative size the window is left empty: clear() has run
\* when reserve(), given the size converted to an unsigned one, throws length_error.
SetAveragingBufferSize(AveragingBufferSize) ==
    /\ _CalculationAverageBufferSize' = AveragingBufferSize
    /\ _CalculationAveragingBuffer' = ClearAveragingBuffer(AveragingBufferSize)
    /\ outputs' = <<>>
    /\ call' = [NoCall EXCEPT !.op = "SetAveragingBufferSize"]
    /\ UNCHANGED <<Tunables, _bIsEnabled, _TickBuffer, _IntegralAccumulation,
                   _PreviousCalculation, _PreviousInput, _PreviousError, run>>

(***************************************************************************)
(* Specification Spec: a controller at a control period of about a second, *)
(* driven with every operation.                                            *)
(***************************************************************************)
Half == R(1, 2)

Two == R(2, 1)

\* a gain and a deltaTime that are not zero and nearly zero
Tiny == R(1, 200000)

Targets == {Zero, One}

Measurements == {Zero, One}

Errors == {R(-1, 1), One}

\* deltaTimes of direct calculations
CalcDeltaTimes == {R(-1, 1), Neg(Tiny), Zero, Tiny, One}

\* deltaTimes of ticks
TickDeltaTimes == {Zero, One, Two}

Periods == {Zero, One}

\* <<P_Gain, I_Gain, D_Gain>>
Tunings == {<<Zero, Zero, Zero>>, <<One, One, One>>, <<One, Tiny, Tiny>>}

\* <<ControlledValue_Min, ControlledValue_Max>>
Ranges == {<<Zero, One>>, <<One, Two>>}

\* Gains a retune may arrive at.
GainValues == {Zero, Tiny, R(1, 4), Half, One, Two, R(4, 1)}

Init ==
    \E g \in Tunings, r \in Ranges, p \in Periods :
        Construct(g[1], g[2], g[3], r[2], r[1], p)

DoCalculateTM ==
    \E t \in Targets, c \in Measurements, dt \in CalcDeltaTimes : CalculateTM(t, c, dt)

DoCalculateE ==
    \E e \in Errors, dt \in CalcDeltaTimes : CalculateE(e, dt)

DoTickTM ==
    \E t \in Targets, c \in Measurements, dt \in TickDeltaTimes : TickTM(t, c, dt)

DoTickE ==
    \E e \in Errors, dt \in TickDeltaTimes : TickE(e, dt)

DoSetPeriodicDuration ==
    \E p \in Periods :
        /\ RescaledGains(p)[1] \in GainValues
        /\ RescaledGains(p)[2] \in GainValues
        /\ SetPeriodicDuration(p)

DoSetEnabled ==
    \E b \in BOOLEAN, c \in BOOLEAN : SetEnabled(b, c)

DoSetGains ==
    \E g \in Tunings : SetGains(g[1], g[2], g[3])

DoClearState == ClearState

Next ==
    \/ DoCalculateTM
    \/ DoCalculateE
    \/ DoTickTM
    \/ DoTickE
    \/ DoSetPeriodicDuration
    \/ DoSetEnabled
    \/ DoSetGains
    \/ DoClearState

Spec == Init /\ [][Next]_vars

(***************************************************************************)
(* Specification SpecTick: the tick scheduler at periods around the        *)
(* "nearly zero" radius, in steps of 1/300000 s, with a proportional-only  *)
(* controller.                                                             *)
(***************************************************************************)
\* How many steps below zero ticks with a negative deltaTime may take the accumulator.
MaxBufferDebt == 2

Steps(n) == R(n, 300000)

\* 1 and 2 steps are nearly zero, 4 and 5 steps are not
FinePeriods == {Zero, Steps(1), Steps(2), Steps(4), Steps(5)}

FineDeltaTimes == {Steps(-1), Zero, Steps(1), Steps(2), Steps(3), Steps(6)}

InitTick ==
    \E p \in FinePeriods : Construct(One, Zero, Zero, One, Zero, p)

DebtBounded(dt) ==
    Gt(PeriodicDuration, Zero) => Ge(Add(_TickBuffer, dt), Steps(-MaxBufferDebt))

FineTickTM ==
    \E dt \in FineDeltaTimes : DebtBounded(dt) /\ TickTM(One, Zero, dt)

FineTickE ==
    \E dt \in FineDeltaTimes : DebtBounded(dt) /\ TickE(One, dt)

FineTickIfEnabledTM ==
    \E dt \in FineDeltaTimes : DebtBounded(dt) /\ TickIfEnabledTM(One, Zero, dt)

FineTickIfEnabledE ==
    \E dt \in FineDeltaTimes : DebtBounded(dt) /\ TickIfEnabledE(One, dt)

FineSetPeriodicDuration ==
    \E p \in FinePeriods : SetPeriodicDuration(p)

NextTick ==
    \/ FineTickTM
    \/ FineTickE
    \/ FineTickIfEnabledTM
    \/ FineTickIfEnabledE
    \/ FineSetPeriodicDuration
    \/ DoSetEnabled
    \/ DoClearState

SpecTick == InitTick /\ [][NextTick]_vars

(***************************************************************************)
(* Specification SpecRetune: retuning the period of a running controller.  *)
(***************************************************************************)
RetunePeriods == {R(-1, 1), Zero, Tiny, One, Two}

RetuneTunings == {<<One, One, One>>, <<One, Zero, Two>>}

InitRetune ==
    \E g \in RetuneTunings, p \in RetunePeriods :
        Construct(g[1], g[2], g[3], One, Zero, p)

RetuneSetPeriodicDuration ==
    \E p \in RetunePeriods :
        /\ RescaledGains(p)[1] \in GainValues
        /\ RescaledGains(p)[2] \in GainValues
        /\ SetPeriodicDuration(p)

RetuneTickE ==
    \E e \in {Zero, One} : TickE(e, One)

RetuneSetGains ==
    \E g \in RetuneTunings : SetGains(g[1], g[2], g[3])

NextRetune ==
    \/ RetuneSetPeriodicDuration
    \/ RetuneTickE
    \/ RetuneSetGains
    \/ DoSetEnabled
    \/ DoClearState

SpecRetune == InitRetune /\ [][NextRetune]_vars

(***************************************************************************)
(* Specification SpecWindow: the averaging window of a PI controller that  *)
(* calculates directly and through ticks at a period of 2 s.               *)
(***************************************************************************)
WindowSizes == -1 .. MaxWindow

WindowDeltaTimes == {Zero, Half}

InitWindow == Construct(One, One, Zero, One, Zero, Two)

WindowCalculateTM ==
    \E t \in Targets, c \in Measurements, dt \in WindowDeltaTimes : CalculateTM(t, c, dt)

WindowTickTM ==
    \E c \in Measurements : TickTM(One, c, One)

WindowTickE ==
    \E e \in {Zero, One} : TickE(e, One)

WindowSetAveragingBufferSize ==
    \E n \in WindowSizes : SetAveragingBufferSize(n)

NextWindow ==
    \/ WindowCalculateTM
    \/ WindowTickTM
    \/ WindowTickE
    \/ WindowSetAveragingBufferSize
    \/ DoSetEnabled
    \/ DoClearState

SpecWindow == InitWindow /\ [][NextWindow]_vars

(***************************************************************************)
(* Properties.                                                             *)
(***************************************************************************)
DirectCalculation(c) == c.op \in {"CalculateTM", "CalculateE"}

AnyTick(c) == c.op \in {"TickTM", "TickE", "TickIfEnabledTM", "TickIfEnabledE"}

InRange(v) == Le(ControlledValue_Min, v) /\ Le(v, ControlledValue_Max)

\* value is 0 or strictly within the radius 0.00001 of 0
WithinRadius(value) ==
    \/ value = Zero
    \/ (Lt(R(-1, 100000), value) /\ Lt(value, R(1, 100000)))

\* C1: every value returned by calculate(target, measured, dt) or calculate(error, dt)
\* lies within [output minimum, output maximum], for any deltaTime.
C1_ReturnAlwaysInRange ==
    DirectCalculation(call) => InRange(call.ret)

\* C1, amended: every value returned by a calculate call (made directly or by a tick)
\* whose deltaTime is not nearly zero lies within [output minimum, output maximum]; a
\* calculate call whose deltaTime is nearly zero returns 0, in the range or not.
C1_ReturnInRangeUnlessRejected ==
    (DirectCalculation(call) \/ (AnyTick(call) /\ call.fired)) =>
        IF WithinRadius(call.calcDt)
        THEN call.ret = Zero /\ ~call.computed
        ELSE InRange(call.ret) /\ call.computed

\* A calculation of P = 1, error = -1 and a frozen accumulator of 0 returned the minimum
\* 1 of the range [1, 2]: the raw sum -1 was clamped.
C1_Witness ==
    /\ call.op = "CalculateE"
    /\ call.computed
    /\ call.x = R(-1, 1)
    /\ P_Gain = One
    /\ IsNearlyZero(I_Gain)
    /\ IsNearlyZero(D_Gain)
    /\ _IntegralAccumulation = Zero
    /\ ControlledValue_Min = One
    /\ call.ret = ControlledValue_Min

\* C2: after any calculation the integral accumulator lies within [output minimum,
\* output maximum], whatever the gains, a nearly zero integral gain included.
C2_AccumulatorAlwaysInRange ==
    call.computed => InRange(_IntegralAccumulation)

\* C2, amended: after any calculation made with an integral gain that is not nearly zero
\* the integral accumulator lies within [output minimum, output maximum]; a calculation
\* made with a nearly zero integral gain leaves the accumulator as it was, and the
\* accumulator is at all times within the range or the cleared value 0.
C2_AccumulatorInRangeOrFrozen ==
    /\ [](call.computed /\ ~WithinRadius(I_Gain) => InRange(_IntegralAccumulation))
    /\ [](InRange(_IntegralAccumulation) \/ _IntegralAccumulation = Zero)
    /\ [][call'.computed /\ WithinRadius(I_Gain)
            => _IntegralAccumulation' = _IntegralAccumulation]_vars

\* A calculation with integral gain 1 and error -1 left the accumulator at the minimum 1
\* of the range [1, 2].
C2_Witness ==
    /\ call.computed
    /\ I_Gain = One
    /\ _PreviousError = R(-1, 1)
    /\ ControlledValue_Min = One
    /\ _IntegralAccumulation = ControlledValue_Min

\* C3: setEnabled(true, clearIntegral) on a disabled controller leaves the integral
\* accumulator at 0 if clearIntegral, and at the last output held before the call
\* (clamped to [min, max]) if not.
C3_BumplessReenable ==
    [][(call'.op = "SetEnabled" /\ ~_bIsEnabled /\ _bIsEnabled')
          => _IntegralAccumulation' =
                 (IF call'.clear THEN Zero ELSE InitializeSeed(FALSE))]_vars

\* C6: with all three gains zero, calculate returns 0 and leaves the integral
\* accumulator unchanged, in every reachable state.
C6_ZeroGainsReturnZero ==
    [][(DirectCalculation(call') /\ P_Gain = Zero /\ I_Gain = Zero /\ D_Gain = Zero)
          => call'.ret = Zero /\ _IntegralAccumulation' = _IntegralAccumulation]_vars

\* C6, amended: with all three gains zero (or nearly zero), calculate leaves the integral
\* accumulator unchanged and returns the accumulator clamped to [output minimum, output
\* maximum], or 0 when its deltaTime is nearly zero.
C6_ZeroGainsReturnAccumulator ==
    [][(DirectCalculation(call') /\ WithinRadius(P_Gain) /\ WithinRadius(I_Gain)
                                 /\ WithinRadius(D_Gain))
          => /\ _IntegralAccumulation' = _IntegralAccumulation
             /\ call'.ret = (IF WithinRadius(call'.dt) THEN Zero
                             ELSE ClampOutput(_IntegralAccumulation))]_vars

\* A calculation with all gains zero returned an accumulator that earlier gains had
\* made nonzero.
C6_Witness ==
    /\ DirectCalculation(call)
    /\ call.computed
    /\ P_Gain = Zero /\ I_Gain = Zero /\ D_Gain = Zero
    /\ _IntegralAccumulation # Zero
    /\ call.ret = _IntegralAccumulation

\* C7: a direct calculate call with deltaTime <= -0.00001 returns 0 and changes neither
\* the integral accumulator, the previous error, the previous input, the last output nor
\* the averaging window.
C7_NegativeDeltaTimeRejected ==
    [][(DirectCalculation(call') /\ Le(call'.dt, R(-1, 100000)))
          => /\ call'.ret = Zero
             /\ UNCHANGED <<_IntegralAccumulation, _PreviousError, _PreviousInput,
                            _PreviousCalculation, _CalculationAveragingBuffer>>]_vars

\* C8: a direct calculate call whose deltaTime is 0 or strictly within +/-0.00001
\* returns 0 and leaves all of the controller's state unchanged.
C8_NearlyZeroDeltaTimeRejected ==
    [][(DirectCalculation(call') /\ WithinRadius(call'.dt))
          => /\ call'.ret = Zero
             /\ UNCHANGED <<Tunables, RunTime, _CalculationAverageBufferSize>>]_vars

\* A calculate call with deltaTime 1/200000 returned 0 on a controller that holds a
\* nonzero last output, previous error and accumulator.
C8_Witness ==
    /\ call.op = "CalculateTM"
    /\ call.dt = Tiny
    /\ call.ret = Zero
    /\ _PreviousCalculation # Zero
    /\ _PreviousError # Zero
    /\ _IntegralAccumulation # Zero
    /\ _PreviousError # Sub(call.x, call.y)

\* The sum of the proportional and integral terms of a calculation on the given error.
PTermPlusITerm(Error, DeltaTime) ==
    Add(ProportionalError(Error), IntegralError(Error, DeltaTime))

\* gain * (error - previousError) / dt
ErrorDerivative(Error, DeltaTime) ==
    Mul(D_Gain, Div(Sub(Error, _PreviousError), DeltaTime))

\* C9: with a nonzero derivative gain and dt > 0, calculate(target, measured, dt) with
\* measured equal to the previous measured value has derivative term 0 whatever the
\* target (the output is clamp(P term + I term)), while calculate(error, dt) with a
\* changed error has the derivative term gain * (error - previousError) / dt, not 0.
C9_KickFree ==
    [][/\ (call'.op = "CalculateTM" /\ D_Gain # Zero /\ Gt(call'.dt, Zero)
              /\ call'.y = _PreviousInput)
          => /\ DifferentialError_PreventDerivativeKick(call'.y, call'.dt) = Zero
             /\ call'.ret = ClampOutput(PTermPlusITerm(Sub(call'.x, call'.y), call'.dt))
       /\ (call'.op = "CalculateE" /\ D_Gain # Zero /\ Gt(call'.dt, Zero)
              /\ call'.x # _PreviousError)
          => /\ DifferentialError(call'.x, call'.dt) = ErrorDerivative(call'.x, call'.dt)
             /\ DifferentialError(call'.x, call'.dt) # Zero
             /\ call'.ret = ClampOutput(Add(PTermPlusITerm(call'.x, call'.dt),
                                            ErrorDerivative(call'.x, call'.dt)))]_vars

\* C9, amended: the same, for a derivative gain that is not nearly zero and a dt > 0
\* that is not nearly zero (dt >= 0.00001).
C9_KickFreeUnlessNearlyZero ==
    [][/\ (call'.op = "CalculateTM" /\ ~WithinRadius(D_Gain)
              /\ Ge(call'.dt, R(1, 100000)) /\ call'.y = _PreviousInput)
          => /\ DifferentialError_PreventDerivativeKick(call'.y, call'.dt) = Zero
             /\ call'.ret = ClampOutput(PTermPlusITerm(Sub(call'.x, call'.y), call'.dt))
       /\ (call'.op = "CalculateE" /\ ~WithinRadius(D_Gain)
              /\ Ge(call'.dt, R(1, 100000)) /\ call'.x # _PreviousError)
          => /\ DifferentialError(call'.x, call'.dt) = ErrorDerivative(call'.x, call'.dt)
             /\ DifferentialError(call'.x, call'.dt) # Zero
             /\ call'.ret = ClampOutput(Add(PTermPlusITerm(call'.x, call'.dt),
                                            ErrorDerivative(call'.x, call'.dt)))]_vars

\* A measurement-based calculation with derivative gain 1, deltaTime 1 and target =
\* measured = 1 returned the whole accumulator 1: nothing was subtracted for the measured
\* value, so the previous measured value was 1 too.
C9_Witness ==
    /\ call.op = "CalculateTM"
    /\ call.computed
    /\ D_Gain = One
    /\ call.dt = One
    /\ call.x = One
    /\ call.y = One
    /\ ControlledValue_Max = One
    /\ _IntegralAccumulation = One
    /\ call.ret = One

\* floor(x / T) and x mod T, for T > 0
WholePeriods(x, T) == Floor(Div(x, T))

Remainder(x, T) == Sub(x, Mul(T, R(WholePeriods(x, T), 1)))

\* The step is a tick of a run: a tick with 0 < dt < period, at the period of all the
\* ticks made since the tick accumulator was cleared.
TickOfRun == run.valid /\ run'.valid /\ run'.ticks = run.ticks + 1

\* C4: with a constant period T > 0, from a cleared tick accumulator, through ticks with
\* 0 < dt < T: a tick returns true and performs one calculation iff the carried
\* accumulator plus dt is >= T, the calculation uses T as its deltaTime, the accumulator
\* is (cumulative dt) mod T and the calculations number floor(cumulative dt / T).
C4_FixedPeriod ==
    /\ [][TickOfRun =>
            LET over == Ge(Add(_TickBuffer, call'.dt), PeriodicDuration)
            IN  /\ call'.fired = over
                /\ call'.computed = over
                /\ over => call'.calcDt = PeriodicDuration]_vars
    /\ []((run.valid /\ run.ticks > 0) =>
            /\ _TickBuffer = Remainder(run.cum, PeriodicDuration)
            /\ run.calcs = WholePeriods(run.cum, PeriodicDuration))

\* C4, amended: the same for a period T that is not nearly zero (T >= 0.00001); for a
\* period 0 < T < 0.00001 the ticks return true and carry the remainder in the same way,
\* but the calculation they ask for, with deltaTime T, is rejected: none is performed.
C4_FixedPeriodNotNearlyZero ==
    /\ [][TickOfRun =>
            LET over == Ge(Add(_TickBuffer, call'.dt), PeriodicDuration)
            IN  /\ call'.fired = over
                /\ call'.computed = (over /\ ~WithinRadius(PeriodicDuration))
                /\ over => call'.calcDt = PeriodicDuration]_vars
    /\ []((run.valid /\ run.ticks > 0) =>
            /\ _TickBuffer = Remainder(run.cum, PeriodicDuration)
            /\ run.calcs = (IF WithinRadius(PeriodicDuration) THEN 0
                            ELSE WholePeriods(run.cum, PeriodicDuration)))

\* Three ticks of a run at a period of 4 steps: the third returned true, calculated with
\* deltaTime 4 steps, and a remainder is carried.
C4_Witness ==
    /\ run.valid
    /\ run.ticks = 3
    /\ PeriodicDuration = Steps(4)
    /\ call.fired
    /\ call.computed
    /\ call.calcDt = Steps(4)
    /\ run.calcs = 1
    /\ _TickBuffer = Steps(2)

\* C5: after any tick that returns true while the period is > 0, ticks interleaved with
\* setPeriod calls, the tick accumulator lies in [0, period), unless the tick's own
\* deltaTime exceeded the period.
C5_BufferBelowPeriod ==
    (AnyTick(call) /\ call.fired /\ Gt(PeriodicDuration, Zero)
                   /\ ~Gt(call.dt, PeriodicDuration))
        => Ge(_TickBuffer, Zero) /\ Lt(_TickBuffer, PeriodicDuration)

\* A period that is > 0 and not nearly zero.
UsablePeriod(p) == Ge(p, R(1, 100000))

\* C10: setPeriod(newPeriod) with the old and the new period both > 0 and not nearly
\* zero leaves integral gain oldGain * newPeriod / oldPeriod and derivative gain
\* oldGain * oldPeriod / newPeriod, so that integralGain / period and derivativeGain *
\* period are kept; otherwise it leaves both gains unchanged; in every case the stored
\* period becomes newPeriod and the proportional gain and the run-time state are
\* unchanged.
C10_Retune ==
    [][call'.op = "SetPeriodicDuration" =>
         /\ IF UsablePeriod(PeriodicDuration) /\ UsablePeriod(call'.x)
            THEN /\ I_Gain' = Div(Mul(I_Gain, call'.x), PeriodicDuration)
                 /\ D_Gain' = Div(Mul(D_Gain, PeriodicDuration), call'.x)
                 /\ Div(I_Gain', PeriodicDuration') = Div(I_Gain, PeriodicDuration)
                 /\ Mul(D_Gain', PeriodicDuration') = Mul(D_Gain, PeriodicDuration)
            ELSE I_Gain' = I_Gain /\ D_Gain' = D_Gain
         /\ PeriodicDuration' = call'.x
         /\ UNCHANGED <<P_Gain, ControlledValue_Max, ControlledValue_Min, RunTime,
                        _CalculationAverageBufferSize>>]_vars

\* setPeriod(2) has left the gains 1, 1 of a controller that has calculated at 2 and 1/2.
C10_Witness ==
    /\ call.op = "SetPeriodicDuration"
    /\ call.x = Two
    /\ PeriodicDuration = Two
    /\ P_Gain = One
    /\ I_Gain = Two
    /\ D_Gain = Half
    /\ _PreviousCalculation # Zero
    /\ _PreviousError # Zero

\* The sum of the latest n entries of s, or of all of s if it has fewer.
RECURSIVE SumOfLatest(_, _)
SumOfLatest(s, n) ==
    IF n = 0 \/ s = <<>> THEN Zero
    ELSE Add(s[Len(s)], SumOfLatest(SubSeq(s, 1, Len(s) - 1), n - 1))

ZeroFilled(buffer) == \A i \in 1 .. Len(buffer) : buffer[i] = Zero

\* C11: with window size n > 1, after any sequence of successful calculations since the
\* window was last cleared, getAverageValue() is the sum of the latest n clamped outputs
\* (missing older ones counted as 0) divided by n; with window size <= 1, and so after a
\* resize to 1, it is the output of the latest calculation, after every calculation.
C11_Average ==
    /\ _CalculationAverageBufferSize > 1 =>
           GetAverageCalculatedValue =
               Div(SumOfLatest(outputs, _CalculationAverageBufferSize),
                   R(_CalculationAverageBufferSize, 1))
    /\ (_CalculationAverageBufferSize <= 1 /\ call.computed) =>
           GetAverageCalculatedValue = call.ret

\* A window of 2 has been given the outputs 1, 0 and 1/2, in that order, since it was
\* cleared: the average is 1/4.
C11_Witness ==
    /\ _CalculationAverageBufferSize = 2
    /\ outputs = <<One, Zero, Half>>
    /\ call.computed
    /\ GetAverageCalculatedValue = R(1, 4)

\* C12: immediately after setAveragingWindowSize(n) the integral accumulator, the
\* previous error, the previous input and the tick accumulator are all 0 and the
\* averaging window is zero-filled.
C12_ResizeClearsState ==
    call.op = "SetAveragingBufferSize" =>
        /\ _IntegralAccumulation = Zero
        /\ _PreviousError = Zero
        /\ _PreviousInput = Zero
        /\ _TickBuffer = Zero
        /\ ZeroFilled(_CalculationAveragingBuffer)

\* C12, amended: setAveragingWindowSize(n) stores n as the window size and leaves the
\* window zero-filled, with n entries (none for n <= 0); it changes nothing else: the
\* integral accumulator, previous error, previous input, tick accumulator, last output,
\* enabled flag, gains, range and period are as they were.
C12_ResizeClearsWindowOnly ==
    [][call'.op = "SetAveragingBufferSize" =>
         /\ Len(_CalculationAveragingBuffer') =
                (IF _CalculationAverageBufferSize' > 0
                 THEN _CalculationAverageBufferSize' ELSE 0)
         /\ ZeroFilled(_CalculationAveragingBuffer')
         /\ UNCHANGED <<Tunables, _bIsEnabled, _TickBuffer, _IntegralAccumulation,
                        _PreviousCalculation, _PreviousInput, _PreviousError>>]_vars

\* A resize to 3 has left a nonzero accumulator, previous error, previous input, last
\* output and tick accumulator in place, on a disabled controller.
C12_Witness ==
    /\ call.op = "SetAveragingBufferSize"
    /\ _CalculationAverageBufferSize = 3
    /\ _CalculationAveragingBuffer = <<Zero, Zero, Zero>>
    /\ _IntegralAccumulation # Zero
    /\ _PreviousError # Zero
    /\ _PreviousInput # Zero
    /\ _PreviousCalculation # Zero
    /\ _TickBuffer # Zero
    /\ ~_bIsEnabled

\* C19: after any sequence of operations, setAveragingWindowSize with any integer
\* argument among them, the number of entries stored in the averaging window equals
\* getAveragingWindowSize(), and immediately after a resize every stored entry is 0.
C19_WindowHoldsSizeEntries ==
    /\ Len(_CalculationAveragingBuffer) = _CalculationAverageBufferSize
    /\ call.op = "SetAveragingBufferSize" => ZeroFilled(_CalculationAveragingBuffer)

\* The call was a tick that went into Tick: a plain tick, or a gated one of an enabled
\* controller (a tick does not change the enabled flag).
TickInvoked(c) ==
    \/ c.op \in {"TickTM", "TickE"}
    \/ (c.op \in {"TickIfEnabledTM", "TickIfEnabledE"} /\ _bIsEnabled)

\* C13: a true return from tick always means a calculation was performed in that
\* invocation: in pass-through mode (period <= 0) every tick, for any deltaTime, 0
\* included, performs a calculation with the caller's deltaTime and returns true, and in
\* period mode tick returns true only if the output state was recomputed.
C13_TrueMeansCalculated ==
    /\ (AnyTick(call) /\ call.fired) => call.computed
    /\ (TickInvoked(call) /\ Le(PeriodicDuration, Zero)) =>
           call.fired /\ call.computed /\ call.calcDt = call.dt

\* C13, amended: a true return from tick means that tick handed a deltaTime to the
\* calculation, and the calculation was performed iff that deltaTime is not nearly zero.
\* In pass-through mode (period <= 0) every tick returns true and hands over the caller's
\* deltaTime; in period mode a tick that returns true handed over the period, or the
\* caller's deltaTime when that exceeds the period.  A tick that returns false performed
\* no calculation, and a performed calculation leaves its result as the last output.
C13_TrueMeansInvoked ==
    /\ (AnyTick(call) /\ call.fired) => (call.computed <=> ~WithinRadius(call.calcDt))
    /\ (AnyTick(call) /\ ~call.fired) => ~call.computed
    /\ (AnyTick(call) /\ call.computed) => _PreviousCalculation = call.ret
    /\ (TickInvoked(call) /\ Le(PeriodicDuration, Zero)) =>
           call.fired /\ call.calcDt = call.dt
    /\ (AnyTick(call) /\ call.fired /\ Gt(PeriodicDuration, Zero)) =>
           call.calcDt = (IF Gt(call.dt, PeriodicDuration) THEN call.dt
                          ELSE PeriodicDuration)

\* A pass-through tick with a deltaTime of 6 steps returned true and calculated the
\* output 1 with that deltaTime.
C13_Witness ==
    /\ call.op = "TickE"
    /\ PeriodicDuration = Zero
    /\ call.dt = Steps(6)
    /\ call.fired
    /\ call.computed
    /\ call.calcDt = Steps(6)
    /\ call.ret = One
    /\ _PreviousCalculation = One

\* C14: while the controller is disabled, both gated tick variants return false and
\* change no state at all, for any arguments and any number of calls.
C14_DisabledGatedTickIsNoOp ==
    [][(call'.op \in {"TickIfEnabledTM", "TickIfEnabledE"} /\ ~_bIsEnabled)
          => /\ ~call'.fired
             /\ ~call'.computed
             /\ UNCHANGED <<Tunables, RunTime, _CalculationAverageBufferSize>>]_vars

\* A gated tick with a deltaTime of 6 steps, more than the period of 4 steps, returned
\* false on a disabled controller that holds a remainder of 1 step and the last output 1.
C14_Witness ==
    /\ call.op = "TickIfEnabledTM"
    /\ call.dt = Steps(6)
    /\ ~_bIsEnabled
    /\ ~call.fired
    /\ PeriodicDuration = Steps(4)
    /\ _TickBuffer = Steps(1)
    /\ _PreviousCalculation = One
    /\ _PreviousError = One

\* C15: when period > 0 and tick is called with deltaTime > period, exactly one
\* calculation is performed with the full deltaTime as its deltaTime, tick returns true,
\* and the tick accumulator is 0 afterwards, whatever remainder it held before.
C15_UnderSampledZeroCarry ==
    [][(TickInvoked(call') /\ Gt(PeriodicDuration, Zero)
                           /\ Gt(call'.dt, PeriodicDuration))
          => /\ call'.fired
             /\ call'.computed
             /\ call'.calcDt = call'.dt
             /\ _TickBuffer' = Zero]_vars

\* C15, amended: when period > 0 and tick is called with deltaTime > period, tick returns
\* true and hands the full deltaTime to one calculation, which is performed iff that
\* deltaTime is not nearly zero; the tick accumulator keeps the remainder it held before
\* (the deltaTime is added and taken out again), or, if it was negative, gains the
\* deltaTime.
C15_UnderSampledKeepsCarry ==
    [][(TickInvoked(call') /\ Gt(PeriodicDuration, Zero)
                           /\ Gt(call'.dt, PeriodicDuration))
          => /\ call'.fired
             /\ call'.computed = ~WithinRadius(call'.dt)
             /\ call'.calcDt = call'.dt
             /\ _TickBuffer' = (IF Ge(_TickBuffer, Zero) THEN _TickBuffer
                                ELSE Add(_TickBuffer, call'.dt))]_vars

\* A tick with a deltaTime of 6 steps at a period of 4 steps returned true, calculated
\* with 6 steps, and a remainder of 3 steps is still in the accumulator.
C15_Witness ==
    /\ call.op = "TickTM"
    /\ PeriodicDuration = Steps(4)
    /\ call.dt = Steps(6)
    /\ call.fired
    /\ call.computed
    /\ call.calcDt = Steps(6)
    /\ _TickBuffer = Steps(3)

\* C16: a tick that returns false (period > 0, accumulated time still below the period)
\* changes only the tick accumulator: last output, average value, integral accumulator,
\* previous error, previous input, gains and enabled flag are as before the call.
C16_FalseTickOnlyAccumulates ==
    [][(TickInvoked(call') /\ ~call'.fired)
          => /\ Gt(PeriodicDuration, Zero)
             /\ _TickBuffer' = Add(_TickBuffer, call'.dt)
             /\ Lt(_TickBuffer', PeriodicDuration)
             /\ ~call'.computed
             /\ AverageOf(_CalculationAveragingBuffer', _CalculationAverageBufferSize',
                          _PreviousCalculation') = GetAverageCalculatedValue
             /\ UNCHANGED <<Tunables, _bIsEnabled, _IntegralAccumulation,
                            _PreviousCalculation, _PreviousInput, _PreviousError,
                            _CalculationAveragingBuffer,
                            _CalculationAverageBufferSize>>]_vars

\* A tick returned false and left 1 s in the accumulator of a controller with a window
\* of 2 that holds a nonzero average, last output, accumulator, error and input.
C16_Witness ==
    /\ call.op = "TickTM"
    /\ ~call.fired
    /\ _TickBuffer = One
    /\ _CalculationAverageBufferSize = 2
    /\ _CalculationAveragingBuffer = <<Half, One>>
    /\ GetAverageCalculatedValue = R(3, 4)
    /\ _PreviousCalculation = One
    /\ _IntegralAccumulation = One
    /\ _PreviousError = One
    /\ _PreviousInput = One

\* C17: setEnabled(enable, clearIntegral) changes nothing except the enabled flag when
\* the transition is enabled->disabled, enabled->enabled or disabled->disabled, whatever
\* clearIntegral is; only disabled->enabled runs the initialize step.
C17_SetEnabledFrame ==
    [][call'.op = "SetEnabled" =>
         /\ UNCHANGED <<Tunables, _CalculationAverageBufferSize>>
         /\ call'.wasEnabled = _bIsEnabled
         /\ IF ~_bIsEnabled /\ _bIsEnabled'
            THEN /\ _TickBuffer' = Zero
                 /\ _PreviousCalculation' = Zero
                 /\ _PreviousInput' = Zero
                 /\ _PreviousError' = Zero
                 /\ ZeroFilled(_CalculationAveragingBuffer')
            ELSE UNCHANGED <<_IntegralAccumulation, _PreviousError, _PreviousInput,
                             _PreviousCalculation, _CalculationAveragingBuffer,
                             _TickBuffer>>]_vars

\* setEnabled(false, true) has disabled an enabled controller and left its accumulator,
\* last output, history, window and tick accumulator, all nonzero, in place.
C17_Witness ==
    /\ call.op = "SetEnabled"
    /\ call.wasEnabled
    /\ call.clear
    /\ ~_bIsEnabled
    /\ _IntegralAccumulation # Zero
    /\ _PreviousCalculation # Zero
    /\ _PreviousError # Zero
    /\ _PreviousInput # Zero
    /\ _TickBuffer # Zero
    /\ _CalculationAverageBufferSize = 2
    /\ _CalculationAveragingBuffer[2] # Zero

\* -gain * (measured - previousInput) / dt
InputDerivative(CurrentValue, DeltaTime) ==
    Mul(Neg(D_Gain), Div(Sub(CurrentValue, _PreviousInput), DeltaTime))

\* The step clears the run-time state: ClearState, or setEnabled(true) when disabled.
StateCleared ==
    \/ call'.op = "ClearState"
    \/ (call'.op = "SetEnabled" /\ ~_bIsEnabled /\ _bIsEnabled')

\* C18: in every calculation the derivative term is computed from the previous cycle's
\* stored values before they are overwritten: calculate(target, measured, dt) uses the
\* measured value of the latest earlier measurement-based calculation (0 after a state
\* clear) and then stores measured and error; calculate(error, dt) uses the previous
\* error and then stores error, and never changes the stored previous input.
C18_DerivativeUsesPrevious ==
    [][/\ (call'.op = "CalculateTM" /\ call'.computed)
          => /\ call'.ret =
                    ClampOutput(Add(PTermPlusITerm(Sub(call'.x, call'.y), call'.dt),
                                    IF Lt(call'.dt, Zero) \/ WithinRadius(D_Gain)
                                    THEN Zero
                                    ELSE InputDerivative(call'.y, call'.dt)))
             /\ _PreviousInput' = call'.y
             /\ _PreviousError' = Sub(call'.x, call'.y)
       /\ (call'.op = "CalculateE" /\ call'.computed)
          => /\ call'.ret =
                    ClampOutput(Add(PTermPlusITerm(call'.x, call'.dt),
                                    IF Lt(call'.dt, Zero) \/ WithinRadius(D_Gain)
                                    THEN Zero
                                    ELSE ErrorDerivative(call'.x, call'.dt)))
             /\ _PreviousError' = call'.x
             /\ _PreviousInput' = _PreviousInput
       /\ StateCleared => _PreviousInput' = Zero /\ _PreviousError' = Zero
       /\ (~StateCleared /\ call'.op \notin {"CalculateTM", "TickTM", "TickIfEnabledTM"})
          => _PreviousInput' = _PreviousInput]_vars

\* calculate(target 1, measured 1, dt 1) with gains 1, 1, 1 and range [0, 1] has
\* returned 0 with the accumulator at 1: the derivative term was -1, taken against a
\* previous measured value of 0, and the measured value 1 is stored now.
C18_Witness ==
    /\ call.op = "CalculateTM"
    /\ call.computed
    /\ call.x = One
    /\ call.y = One
    /\ call.dt = One
    /\ P_Gain = One
    /\ I_Gain = One
    /\ D_Gain = One
    /\ ControlledValue_Min = Zero
    /\ ControlledValue_Max = One
    /\ _IntegralAccumulation = One
    /\ call.ret = Zero
    /\ _PreviousInput = One
    /\ _PreviousError = Zero

\* C20: the state-clear operation always leaves the controller enabled, so ClearState on
\* a disabled controller re-enables it (isEnabled() is true and gated ticks calculate
\* again) without going through setEnabled, and a disabled->enabled setEnabled call
\* zeroes the last output and the tick accumulator as well as the error and input
\* history.
C20_ClearStateEnables ==
    /\ [][call'.op = "ClearState" =>
             /\ call'.wasEnabled = _bIsEnabled
             /\ _bIsEnabled'
             /\ _TickBuffer' = Zero
             /\ _PreviousCalculation' = Zero]_vars
    /\ [][(call'.op = "SetEnabled" /\ ~_bIsEnabled /\ _bIsEnabled') =>
             /\ _PreviousCalculation' = Zero
             /\ _TickBuffer' = Zero
             /\ _PreviousError' = Zero
             /\ _PreviousInput' = Zero]_vars
    /\ [][(call'.op \in {"TickIfEnabledTM", "TickIfEnabledE"} /\ _bIsEnabled) =>
             call'.fired = \/ Le(PeriodicDuration, Zero)
                           \/ Gt(call'.dt, PeriodicDuration)
                           \/ Ge(Add(_TickBuffer, call'.dt), PeriodicDuration)]_vars

\* ClearState has been called on a disabled controller, which is enabled now.
C20_Witness ==
    /\ call.op = "ClearState"
    /\ ~call.wasEnabled
    /\ _bIsEnabled
    /\ _TickBuffer = Zero
    /\ _PreviousCalculation = Zero
    /\ Gt(PeriodicDuration, Zero)

====
